---------------------------- MODULE Spec2Model ----------------------------
(***************************************************************************)
(* Decks of playing cards: playing_cards/models.py (Suit, Rank, Card,      *)
(* Deck, Decks) and playing_cards/deck.py (Deck with num_decks).           *)
(*                                                                         *)
(* A card is a record [rank, suit].  A Python str is a sequence of         *)
(* one-character strings, so that len() and indexing are those of the      *)
(* code.  An optional argument is <<>> for None and <<x>> for the value x. *)
(***************************************************************************)
EXTENDS Integers, Sequences, FiniteSets, Bags, TLC

VARIABLES
    cls,              \* which class the object is: "Deck", "Decks" (models.py), "deck.Deck" (deck.py)
    pack,             \* how many pairs of itertools.product(Rank, Suit) a pack holds (52 in the program)
    number_of_decks,  \* Decks.number_of_decks / deck.Deck._num_decks (1 for models.Deck)
    cards,            \* self.cards, cards[Len(cards)] is the top card
    op,               \* the method that ran last
    arg,              \* its argument: <<>> for none / None, <<x>> otherwise
    result,           \* what it returned or raised
    run,              \* history: the calls of one withdrawal, all alike, since the last reset
    before,           \* history: len(self.cards) when the last method was called
    taken             \* history: the bag of the cards withdrawals have returned since the last reset

vars == <<cls, pack, number_of_decks, cards, op, arg, result, run, before, taken>>

-----------------------------------------------------------------------------
(* Bounds *)

\* Most pairs of the product a pack holds (the program's pack holds them all).
MaxPack == 3

\* Most cards a deck holds: pack * number_of_decks <= MaxCards.
MaxCards == 4

\* Longest str handed to a from_id.
MaxIdLen == 3

-----------------------------------------------------------------------------
(* Suit and Rank *)

ACE == 1
KING == 13

\* Rank(enum.IntEnum): the members are their values, ACE = 1 .. KING = 13.
Rank == ACE..KING

\* Suit(enum.StrEnum): the members in definition order, which is the order
\* itertools.product iterates them in.
Suit == <<"club", "spade", "heart", "diamond">>

SuitSet == {Suit[i] : i \in 1..Len(Suit)}

\* suits.toml: the id of every suit, keyed by the value of the member.
SUITS == [club |-> "C", spade |-> "S", heart |-> "H", diamond |-> "D"]

\* ranks.toml: the id of every rank, keyed by the value of the member (1 .. 13).
RANKS == <<"A", "2", "3", "4", "5", "6", "7", "8", "9", "T", "J", "Q", "K">>

\* Suit.id and Rank.id
SuitId(s) == SUITS[s]

RankId(r) == RANKS[r]

-----------------------------------------------------------------------------
(* Card *)

Card(rank, suit) == [rank |-> rank, suit |-> suit]

CardSet == {Card(r, s) : r \in Rank, s \in SuitSet}

\* The value of `result.card` when no card was returned.
NoCard == [rank |-> 0, suit |-> "none"]

\* Card.__str__: rank.id + suit.id
CardStr(c) == <<RankId(c.rank), SuitId(c.suit)>>

\* Suit.from_id / Rank.from_id: the members whose id is _id (the code returns
\* the first one in table order, and raises KeyError when there is none).
SuitFromId(_id) == {s \in SuitSet : SUITS[s] = _id}

RankFromId(_id) == {r \in Rank : RANKS[r] = _id}

\* Card.from_id: the set holding the card, or {} when it raises KeyError.
CardFromId(_id) ==
    IF Len(_id) # 2 THEN {}
    ELSE {Card(r, s) : r \in RankFromId(_id[1]), s \in SuitFromId(_id[2])}

-----------------------------------------------------------------------------
(* Sequence helpers *)

None == <<>>

Some(x) == <<x>>

\* Python truthiness of an optional str: None and "" are falsy.
Truthy(a) == a # None /\ a[1] # <<>>

\* del s[i:] in place of s.pop(i): the cards behind element i leave with it.
RemoveAt_from(s, i) == SubSeq(s, 1, i - 1)

\* list.pop(i) leaves the list without its element i (1-based here).
RemoveAt(s, i) == SubSeq(s, 1, i - 1) \o SubSeq(s, i + 1, Len(s))

\* How many cards of `s` have the identifier `id`.
Count(id, s) == Cardinality({i \in 1..Len(s) : CardStr(s[i]) = id})

\* The identifiers of the cards of `s`, in order.
IdsOf(s) == [i \in 1..Len(s) |-> CardStr(s[i])]

\* How often x occurs in the sequence q.
Occurrences(x, q) == Cardinality({i \in 1..Len(q) : q[i] = x})

\* Mutant: x[i] = x[j] without x[j] = x[i], so that x[j] is not taken out of
\* the cards still to place.
Swap_overwrite(s, j) == SubSeq(s, 1, Len(s) - 1)

\* x[i], x[j] = x[j], x[i] for the last index i of the part still to place:
\* x[j] is placed at i, and the part x[1..i-1] is left with the old x[i] at j.
Swap(s, j) == SubSeq([s EXCEPT ![j] = s[Len(s)]], 1, Len(s) - 1)

\* random.shuffle(x): for i from the last index down, swap x[i] with x[j] for
\* a random j <= i.  The set of all lists it can leave: the last place gets
\* any x[j], and the places before it a shuffle of the rest.  (Equal cards
\* give equal lists, so one j per distinct card is followed.)
RECURSIVE Shuffled(_)
Shuffled(x) ==
    IF Len(x) < 2 THEN {x}
    ELSE UNION {{Append(y, x[j]) : y \in Shuffled(Swap(x, j))} :
                   j \in {k \in 1..Len(x) : \A l \in (k + 1)..Len(x) : x[l] # x[k]}}


-----------------------------------------------------------------------------
(* Outcomes of a call *)

Returned(c) == [kind |-> "card", card |-> c]

ReturnedNone == [kind |-> "None", card |-> NoCard]

Raised(e) == [kind |-> e, card |-> NoCard]

Outcome(s, r) == [cards |-> s, result |-> r]

-----------------------------------------------------------------------------
(* The cards a reset generates, before it shuffles them *)

ProductSize == Cardinality(Rank) * Len(Suit)

\* itertools.product(Rank, Suit): rank outer, suit inner.
Product ==
    [i \in 1..ProductSize |->
        Card(ACE + ((i - 1) \div Len(Suit)), Suit[((i - 1) % Len(Suit)) + 1])]

\* The first p pairs of the product: the pack of the model (p = 52 is the program's).
Pack(p) == SubSeq(Product, 1, p)

\* A reset of a single deck that lists every pair of the product twice.
reset_Deck_twice(s, p) == Pack(p) \o Pack(p)

\* models.Deck.reset: self.cards becomes one card per pair of the product
\* (s is self.cards as the call finds it).
reset_Deck(s, p) == Pack(p)

\* models.Decks.reset: self.cards = [], then number_of_decks times extend by a pack.
RECURSIVE Extend(_, _, _)
Extend(s, p, k) == IF k <= 0 THEN s ELSE Extend(s \o Pack(p), p, k - 1)

\* Mutants: the loop runs once whatever number_of_decks is; self.cards is not
\* emptied before the loop.
reset_Decks_one_pack(s, p, n) == Extend(<<>>, p, 1)

reset_Decks_not_cleared(s, p, n) == Extend(s, p, n)

reset_Decks(s, p, n) == Extend(<<>>, p, n)

\* deck.Deck.reset: itertools.product(range(num_decks), Rank, Suit), deck outer.
deck_reset(s, p, n) == [i \in 1..(n * p) |-> Pack(p)[((i - 1) % p) + 1]]

\* What reset() of class c leaves in self.cards before it calls shuffle().
Generated(c, s, p, n) ==
    CASE c = "Deck" -> reset_Deck(s, p)
      [] c = "Decks" -> reset_Decks(s, p, n)
      [] c = "deck.Deck" -> deck_reset(s, p, n)

-----------------------------------------------------------------------------
(* Withdrawals *)

\* list.pop(): IndexError on an empty list, else the last element leaves.
\* Mutants: pop(0) instead of pop(); None instead of IndexError on an empty
\* list; the top card returned without leaving the list.
Pop_first(s) ==
    IF Len(s) = 0 THEN Outcome(s, Raised("IndexError"))
    ELSE Outcome(SubSeq(s, 2, Len(s)), Returned(s[1]))

Pop_none_when_empty(s) ==
    IF Len(s) = 0 THEN Outcome(s, ReturnedNone)
    ELSE Outcome(SubSeq(s, 1, Len(s) - 1), Returned(s[Len(s)]))

Pop_peek(s) ==
    IF Len(s) = 0 THEN Outcome(s, Raised("IndexError"))
    ELSE Outcome(s, Returned(s[Len(s)]))

Pop(s) ==
    IF Len(s) = 0 THEN Outcome(s, Raised("IndexError"))
    ELSE Outcome(SubSeq(s, 1, Len(s) - 1), Returned(s[Len(s)]))

\* The positions of `s` whose card has the identifier _id.
Matches(s, _id) == {i \in 1..Len(s) : CardStr(s[i]) = _id}

\* Mutant: the loop keeps the last match.
FirstMatch_last(s, _id) == CHOOSE i \in Matches(s, _id) : \A j \in Matches(s, _id) : i >= j

\* The position the enumerate loop stops at: the first match.
FirstMatch(s, _id) == CHOOSE i \in Matches(s, _id) : \A j \in Matches(s, _id) : i <= j

\* Mutants: no raise after the loop (the method returns None); every card of
\* the identifier leaves the list.
_take_card_by_id_no_raise(s, _id) ==
    IF Matches(s, _id) # {}
    THEN Outcome(RemoveAt(s, FirstMatch(s, _id)), Returned(s[FirstMatch(s, _id)]))
    ELSE Outcome(s, ReturnedNone)

_take_card_by_id_all(s, _id) ==
    IF Matches(s, _id) # {}
    THEN Outcome(SelectSeq(s, LAMBDA c : CardStr(c) # _id), Returned(s[FirstMatch(s, _id)]))
    ELSE Outcome(s, Raised("KeyError"))

\* models.Deck._take_card_by_id
_take_card_by_id(s, _id) ==
    IF Matches(s, _id) # {}
    THEN Outcome(RemoveAt(s, FirstMatch(s, _id)), Returned(s[FirstMatch(s, _id)]))
    ELSE Outcome(s, Raised("KeyError"))

\* models.Deck.take_card
take_card(s, _id) == IF Truthy(_id) THEN _take_card_by_id(s, _id[1]) ELSE Pop(s)

\* deck.Deck._take_card_by_key: the loop ends without a match and the method
\* returns None.
_take_card_by_key(s, key) ==
    IF Matches(s, key) # {}
    THEN Outcome(RemoveAt(s, FirstMatch(s, key)), Returned(s[FirstMatch(s, key)]))
    ELSE Outcome(s, ReturnedNone)

\* deck.Deck.take_card
deck_take_card(s, _key) == IF Truthy(_key) THEN _take_card_by_key(s, _key[1]) ELSE Pop(s)

\* An indexed read that takes the card it reads out of the list
\* (self.cards.pop(position)).
getitem_pops(s, position) ==
    IF 0 <= position /\ position < Len(s)
    THEN Outcome(RemoveAt(s, position + 1), Returned(s[position + 1]))
    ELSE IF position < 0 /\ -Len(s) <= position
         THEN Outcome(RemoveAt(s, Len(s) + position + 1), Returned(s[Len(s) + position + 1]))
         ELSE Outcome(s, Raised("IndexError"))

\* An indexed read that takes a position off the end for the last card.
getitem_clamped(s, position) ==
    IF s = <<>> THEN Outcome(s, Raised("IndexError"))
    ELSE IF position >= 0
         THEN Outcome(s, Returned(s[IF position < Len(s) THEN position + 1 ELSE Len(s)]))
         ELSE Outcome(s, Returned(s[IF -Len(s) <= position THEN Len(s) + position + 1 ELSE 1]))

\* Deck.__getitem__(position): self.cards[position], negative positions count
\* from the end.
getitem(s, position) ==
    IF 0 <= position /\ position < Len(s) THEN Outcome(s, Returned(s[position + 1]))
    ELSE IF position < 0 /\ -Len(s) <= position
         THEN Outcome(s, Returned(s[Len(s) + position + 1]))
         ELSE Outcome(s, Raised("IndexError"))

-----------------------------------------------------------------------------
(* History of the withdrawals since the last reset *)

Fresh == [live |-> TRUE, op |-> "", arg |-> None, n |-> 0]

Broken == [live |-> FALSE, op |-> "", arg |-> None, n |-> 0]

\* One more call of withdrawal o(a): the run goes on while every call since the
\* reset was this one, and is followed for one call beyond the size of the deck.
NextRun(r, o, a, size) ==
    IF r.live /\ (r.n = 0 \/ (r.op = o /\ r.arg = a)) /\ r.n <= size
    THEN [live |-> TRUE, op |-> o, arg |-> a, n |-> r.n + 1]
    ELSE Broken

-----------------------------------------------------------------------------
(* Inputs *)

Classes == {"Deck", "Decks", "deck.Deck"}

\* The name of the private withdrawal by identifier in class c.
ById(c) == IF c = "deck.Deck" THEN "_take_card_by_key" ELSE "_take_card_by_id"

\* Identifiers a caller asks for: those of the pack, that of one card no pack
\* of this size holds, the empty string and a one-character string.
IdInputs(p) == {CardStr(Product[i]) : i \in 1..(p + 1)} \cup {<<>>, <<"A">>}

\* Positions a caller reads a deck of k cards at: both ends, counted from the
\* front and from the back, and the first position off each end.
Positions(k) == {-(k + 1), -k, -1, 0, k - 1, k}

-----------------------------------------------------------------------------
(* The state machine *)

\* Deck(), Decks(n), deck.Deck(num_decks = n): the constructor stores its
\* arguments, sets self.cards = [] and calls reset().
Init ==
    /\ cls \in Classes
    /\ pack \in 1..MaxPack
    /\ number_of_decks \in 1..MaxCards
    /\ cls = "Deck" => number_of_decks = 1
    /\ pack * number_of_decks <= MaxCards
    /\ cards \in Shuffled(Generated(cls, <<>>, pack, number_of_decks))
    /\ op = "__init__"
    /\ arg = None
    /\ result = ReturnedNone
    /\ run = Fresh
    /\ before = 0
    /\ taken = EmptyBag

Reset ==
    /\ cards' \in Shuffled(Generated(cls, cards, pack, number_of_decks))
    /\ op' = "reset"
    /\ arg' = None
    /\ result' = ReturnedNone
    /\ run' = Fresh
    /\ before' = Len(cards)
    /\ taken' = EmptyBag
    /\ UNCHANGED <<cls, pack, number_of_decks>>

Shuffle ==
    /\ cards' \in Shuffled(cards)
    /\ op' = "shuffle"
    /\ arg' = None
    /\ result' = ReturnedNone
    /\ run' = Broken
    /\ before' = Len(cards)
    /\ UNCHANGED <<cls, pack, number_of_decks, taken>>

\* The methods that withdraw a card.
Withdrawals == {"take_card", "_take_card_by_id", "_take_card_by_key"}

Apply(o, a, out) ==
    /\ cards' = out.cards
    /\ result' = out.result
    /\ op' = o
    /\ arg' = a
    /\ before' = Len(cards)
    /\ taken' = IF o \in Withdrawals /\ out.result.kind = "card"
                THEN taken (+) SetToBag({out.result.card})
                ELSE taken
    /\ UNCHANGED <<cls, pack, number_of_decks>>

\* take_card() and take_card(_id)
TakeCard ==
    \E a \in {None} \cup {Some(i) : i \in IdInputs(pack)} :
        /\ Apply("take_card", a,
                 IF cls = "deck.Deck" THEN deck_take_card(cards, a) ELSE take_card(cards, a))
        /\ run' = NextRun(run, "take_card", a, pack * number_of_decks)

\* _take_card_by_id(_id) / _take_card_by_key(key) called directly
TakeCardById ==
    \E i \in IdInputs(pack) :
        /\ Apply(ById(cls), Some(i),
                 IF cls = "deck.Deck" THEN _take_card_by_key(cards, i)
                 ELSE _take_card_by_id(cards, i))
        /\ run' = NextRun(run, ById(cls), Some(i), pack * number_of_decks)

\* deck[position]
GetItem ==
    \E position \in Positions(Len(cards)) :
        /\ Apply("__getitem__", Some(position), getitem(cards, position))
        /\ run' = Broken

Next == Reset \/ Shuffle \/ TakeCard \/ TakeCardById \/ GetItem

Spec == Init /\ [][Next]_vars

-----------------------------------------------------------------------------
(* Suit, Rank and Card as values: from_id, id, __str__ and the comparisons *)

\* What a call returns when it is not a card.
Value(v) == [kind |-> "value", value |-> v]

\* Rank.from_id(_id): the first rank of RANKS whose id equals the str _id,
\* KeyError when the loop ends without one.
Rank_from_id(_id) ==
    LET found == IF Len(_id) = 1 THEN RankFromId(_id[1]) ELSE {}
    IN  IF found = {} THEN Raised("KeyError")
        ELSE Value(CHOOSE r \in found : \A q \in found : r <= q)

\* Suit.from_id(_id): the first suit of SUITS whose id equals the str _id,
\* KeyError when the loop ends without one.
Suit_from_id(_id) ==
    LET found == IF Len(_id) = 1
                 THEN {i \in 1..Len(Suit) : SUITS[Suit[i]] = _id[1]}
                 ELSE {}
    IN  IF found = {} THEN Raised("KeyError")
        ELSE Value(Suit[CHOOSE i \in found : \A j \in found : i <= j])

\* cls(Rank.from_id(_id[1]), Suit.from_id(_id[0])): the characters taken in
\* the wrong order.
Card_from_id_swapped(_id) ==
    IF Len(_id) # 2 THEN Raised("KeyError")
    ELSE LET r == Rank_from_id(SubSeq(_id, 2, 2))
             s == Suit_from_id(SubSeq(_id, 1, 1))
         IN  IF r.kind # "value" THEN r
             ELSE IF s.kind # "value" THEN s
             ELSE Returned(Card(r.value, s.value))

\* Card.from_id without the test of len(_id): _id[0] and _id[1] raise
\* IndexError on a shorter str and ignore the rest of a longer one.
Card_from_id_any_length(_id) ==
    IF Len(_id) < 2 THEN Raised("IndexError")
    ELSE LET r == Rank_from_id(SubSeq(_id, 1, 1))
             s == Suit_from_id(SubSeq(_id, 2, 2))
         IN  IF r.kind # "value" THEN r
             ELSE IF s.kind # "value" THEN s
             ELSE Returned(Card(r.value, s.value))

\* Card.from_id(_id): KeyError unless len(_id) == 2, then
\* cls(Rank.from_id(_id[0]), Suit.from_id(_id[1])), the rank looked up first.
Card_from_id(_id) ==
    IF Len(_id) # 2 THEN Raised("KeyError")
    ELSE LET r == Rank_from_id(SubSeq(_id, 1, 1))
             s == Suit_from_id(SubSeq(_id, 2, 2))
         IN  IF r.kind # "value" THEN r
             ELSE IF s.kind # "value" THEN s
             ELSE Returned(Card(r.value, s.value))

\* The value of a Suit member as a str.
SuitValue ==
    [club    |-> <<"c", "l", "u", "b">>,
     spade   |-> <<"s", "p", "a", "d", "e">>,
     heart   |-> <<"h", "e", "a", "r", "t">>,
     diamond |-> <<"d", "i", "a", "m", "o", "n", "d">>]

\* The lower-case letters in code point order.
Letters ==
    <<"a", "b", "c", "d", "e", "f", "g", "h", "i", "j", "k", "l", "m",
      "n", "o", "p", "q", "r", "s", "t", "u", "v", "w", "x", "y", "z">>

Ord(ch) == CHOOSE i \in 1..Len(Letters) : Letters[i] = ch

\* The comparison of two str, character by character: -1, 0 or 1.
RECURSIVE StrCmp(_, _)
StrCmp(x, y) ==
    IF x = <<>> /\ y = <<>> THEN 0
    ELSE IF x = <<>> THEN -1
    ELSE IF y = <<>> THEN 1
    ELSE IF Ord(Head(x)) < Ord(Head(y)) THEN -1
    ELSE IF Ord(Head(x)) > Ord(Head(y)) THEN 1
    ELSE StrCmp(Tail(x), Tail(y))

\* The order dict of Suit.__lt__ with the members numbered as they are
\* declared.
Suit_lt_declared(a, b) ==
    LET order == [club |-> 0, spade |-> 1, heart |-> 2, diamond |-> 3]
    IN  order[a] < order[b]

\* Suit.__lt__: by the order dict of the method.
Suit_lt(a, b) ==
    LET order == [club |-> 0, diamond |-> 1, heart |-> 2, spade |-> 3]
    IN  order[a] < order[b]

\* Suit >= and ==: total_ordering decorates the method, not the class, and
\* adds nothing, so these are the comparisons of str on the values.
Suit_ge(a, b) == StrCmp(SuitValue[a], SuitValue[b]) >= 0

Suit_eq(a, b) == StrCmp(SuitValue[a], SuitValue[b]) = 0

\* Rank.__lt__: self.value < other.value; >= and == are those of int.
Rank_lt(a, b) == a < b

Rank_ge(a, b) == a >= b

Rank_eq(a, b) == a = b

\* a.o(b) for two members of the enum c.
Compare(c, o, a, b) ==
    CASE o = "__lt__" -> IF c = "Suit" THEN Suit_lt(a, b) ELSE Rank_lt(a, b)
      [] o = "__ge__" -> IF c = "Suit" THEN Suit_ge(a, b) ELSE Rank_ge(a, b)
      [] o = "__eq__" -> IF c = "Suit" THEN Suit_eq(a, b) ELSE Rank_eq(a, b)

-----------------------------------------------------------------------------
(* The state machine of the values: one call on chosen arguments *)

\* The characters of the strs handed to from_id: every id of the tables and
\* two characters that are no id.
Chars == {RANKS[r] : r \in Rank} \cup {SUITS[s] : s \in SuitSet} \cup {"X", "0"}

Strings == UNION {[1..n -> Chars] : n \in 0..MaxIdLen}

\* The types of the arguments: a str, a Card, two Ranks, two Suits.
ValueClasses == {"str", "Card", "Rank", "Suit"}

ValueInputs(c) ==
    CASE c = "str"  -> {Some(s) : s \in Strings}
      [] c = "Card" -> {Some(x) : x \in CardSet}
      [] c = "Rank" -> Rank \X Rank
      [] c = "Suit" -> SuitSet \X SuitSet

\* The arguments are chosen and nothing has been called; there is no deck.
InitValues ==
    /\ cls \in ValueClasses
    /\ arg \in ValueInputs(cls)
    /\ op = ""
    /\ result = ReturnedNone
    /\ pack = 1
    /\ number_of_decks = 1
    /\ cards = <<>>
    /\ run = Broken
    /\ before = 0
    /\ taken = EmptyBag

Call(o, r) ==
    /\ op = ""
    /\ op' = o
    /\ result' = r
    /\ UNCHANGED <<cls, pack, number_of_decks, cards, arg, run, before, taken>>

\* Card.from_id(s), Rank.from_id(s), Suit.from_id(s)
CallCardFromId == cls = "str" /\ Call("Card.from_id", Card_from_id(arg[1]))

CallRankFromId == cls = "str" /\ Call("Rank.from_id", Rank_from_id(arg[1]))

CallSuitFromId == cls = "str" /\ Call("Suit.from_id", Suit_from_id(arg[1]))

\* str(card)
CallStr == cls = "Card" /\ Call("__str__", Value(CardStr(arg[1])))

\* rank.id, suit.id
CallId ==
    \/ cls = "Rank" /\ Call("id", Value(<<RankId(arg[1])>>))
    \/ cls = "Suit" /\ Call("id", Value(<<SuitId(arg[1])>>))

\* a < b, a >= b, a == b
CallCompare ==
    /\ cls \in {"Rank", "Suit"}
    /\ \E o \in {"__lt__", "__ge__", "__eq__"} :
          Call(o, Value(Compare(cls, o, arg[1], arg[2])))

NextValues ==
    \/ CallCardFromId
    \/ CallRankFromId
    \/ CallSuitFromId
    \/ CallStr
    \/ CallId
    \/ CallCompare

SpecValues == InitValues /\ [][NextValues]_vars

-----------------------------------------------------------------------------
(* Vocabulary of the claims *)

\* The identifiers of the cards of a pack of p pairs.
PackIds(p) == {CardStr(Product[i]) : i \in 1..p}

\* The size of a full deck (52 * decks_count in the program, where a pack is
\* the whole product).
FullSize == pack * number_of_decks

\* s holds every identifier of the pack exactly number_of_decks times, and
\* nothing else.
IsFull(s) ==
    /\ Len(s) = FullSize
    /\ LET ids == IdsOf(s)
       IN  \A id \in PackIds(pack) : Occurrences(id, ids) = number_of_decks

NoDuplicates(s) ==
    \A i, j \in 1..Len(s) : i # j => CardStr(s[i]) # CardStr(s[j])

-----------------------------------------------------------------------------
\* C1: right after construction a deck of decks_count = n holds pack * n cards,
\* every identifier of the pack exactly n times; a single deck holds no
\* identifier twice.
C1_FreshDeckIsFull ==
    op = "__init__" =>
        /\ IsFull(cards)
        /\ number_of_decks = 1 => NoDuplicates(cards)

C1_Witness ==
    /\ op = "__init__"
    /\ cls = "Decks"
    /\ number_of_decks = 2
    /\ pack = 2
    /\ Len(cards) = 4

\* C2: take_card() on a deck of k >= 1 cards returns the last card and leaves
\* the first k - 1 cards in their order.
C2_TopWithdrawalPopsLast ==
    [][(op' = "take_card" /\ arg' = None /\ Len(cards) >= 1) =>
          /\ result' = Returned(cards[Len(cards)])
          /\ Len(cards') = Len(cards) - 1
          /\ \A i \in 1..(Len(cards) - 1) : cards'[i] = cards[i]]_vars

C2_Witness ==
    /\ op = "take_card"
    /\ arg = None
    /\ result.kind = "card"
    /\ Len(cards) >= 2
    /\ result.card # cards[1]

\* C3: from a fresh deck, pack * n top withdrawals in a row succeed, the j-th
\* leaving pack * n - j cards and the last an empty deck; the next one raises
\* IndexError and the deck is still empty.
C3_TopWithdrawalsEmptyTheDeck ==
    (run.live /\ run.op = "take_card" /\ run.arg = None) =>
        /\ run.n <= FullSize =>
              result.kind = "card" /\ Len(cards) = FullSize - run.n
        /\ run.n = FullSize + 1 =>
              result = Raised("IndexError") /\ cards = <<>>

C3_Witness ==
    /\ run.live
    /\ run.op = "take_card"
    /\ run.arg = None
    /\ run.n = FullSize + 1
    /\ number_of_decks = 2
    /\ pack = 2

\* A call o(a) is a withdrawal by identifier: the private method called
\* directly, or take_card with an argument the code takes as an identifier.
ByIdCall(o, a) ==
    \/ o \in {"_take_card_by_id", "_take_card_by_key"}
    \/ o = "take_card" /\ Truthy(a)

InModels == cls \in {"Deck", "Decks"}

\* C4: withdrawal by an identifier some card of the deck has removes the first
\* card with that identifier and returns it, a card equal to Card.from_id(id);
\* the deck is one card shorter and the other cards keep their order.
C4_ByIdRemovesFirstMatch ==
    [][(ByIdCall(op', arg') /\ Count(arg'[1], cards) >= 1) =>
          \E i \in 1..Len(cards) :
              /\ CardStr(cards[i]) = arg'[1]
              /\ \A j \in 1..(i - 1) : CardStr(cards[j]) # arg'[1]
              /\ result' = Returned(cards[i])
              /\ CardFromId(arg'[1]) = {result'.card}
              /\ Len(cards') = Len(cards) - 1
              /\ \A k \in 1..Len(cards') :
                    cards'[k] = IF k < i THEN cards[k] ELSE cards[k + 1]]_vars

C4_Witness ==
    /\ ByIdCall(op, arg)
    /\ result.kind = "card"
    /\ Len(cards) = 3
    /\ cards[1] # result.card
    /\ cards[2] = result.card

\* C5: in models.py, withdrawal by an identifier no card of the deck has raises
\* KeyError and returns no card, the empty deck included.
C5_ByIdRaisesKeyErrorWhenAbsent ==
    [][(InModels /\ ByIdCall(op', arg') /\ Count(arg'[1], cards) = 0) =>
          result' = Raised("KeyError")]_vars

C5_Witness ==
    /\ InModels
    /\ ByIdCall(op, arg)
    /\ result.kind = "KeyError"
    /\ cards = <<>>

\* C6: in deck.py, _take_card_by_key raises an error when no card of the deck
\* has the key; it never completes normally then.
C6_ByKeyRaisesWhenAbsent ==
    [][(cls = "deck.Deck" /\ ByIdCall(op', arg') /\ Count(arg'[1], cards) = 0) =>
          result'.kind \in {"IndexError", "KeyError"}]_vars

\* C7: on a fresh Decks(n), n withdrawals in a row by one identifier of the
\* pack succeed, the j-th leaving pack * n - j cards of which n - j have the
\* identifier; withdrawal n + 1 raises KeyError.
C7_ByIdSucceedsOncePerDeck ==
    (InModels /\ run.live /\ run.n >= 1 /\ ByIdCall(run.op, run.arg)
       /\ run.arg[1] \in PackIds(pack)) =>
        /\ run.n <= number_of_decks =>
              /\ result.kind = "card"
              /\ CardStr(result.card) = run.arg[1]
              /\ Len(cards) = FullSize - run.n
              /\ Count(run.arg[1], cards) = number_of_decks - run.n
        /\ run.n = number_of_decks + 1 => result = Raised("KeyError")

C7_Witness ==
    /\ cls = "Decks"
    /\ number_of_decks = 2
    /\ run.live
    /\ run.op = "take_card"
    /\ run.arg = Some(<<"A", "S">>)
    /\ run.n = 3
    /\ result.kind = "KeyError"

\* The withdrawal by identifier of the deck's class, tried on the cards s.
WithdrawById(s, id) ==
    IF cls = "deck.Deck" THEN _take_card_by_key(s, id) ELSE _take_card_by_id(s, id)

\* C8: a successful withdrawal that returns c from a deck with m cards of c's
\* identifier leaves m - 1 of them; in a single deck c is gone and cannot be
\* withdrawn by its identifier again, in general c is still found exactly
\* when m > 1.
C8_WithdrawnCardLeaves ==
    [][(op' \in Withdrawals /\ result'.kind = "card") =>
          LET id == CardStr(result'.card)
              m == Count(id, cards)
          IN  /\ m >= 1
              /\ Count(id, cards') = m - 1
              /\ number_of_decks = 1 =>
                    /\ \A i \in 1..Len(cards') : cards'[i] # result'.card
                    /\ WithdrawById(cards', id).result.kind # "card"
              /\ (\E i \in 1..Len(cards') : cards'[i] = result'.card) <=> m > 1]_vars

C8_Witness ==
    /\ op = "take_card"
    /\ arg = None
    /\ result.kind = "card"
    /\ cls = "Decks"
    /\ number_of_decks = 2
    /\ Count(CardStr(result.card), cards) = 1

\* C9: reset() in any state leaves pack * decks_count cards, every identifier
\* of the pack decks_count times; no operation changes decks_count.
C9_ResetRestoresFullDeck ==
    [][/\ number_of_decks' = number_of_decks
       /\ op' = "reset" => IsFull(cards')]_vars

C9_Witness ==
    /\ op = "reset"
    /\ before = 0
    /\ cls = "Decks"
    /\ number_of_decks = 2
    /\ pack = 2
    /\ IsFull(cards)

\* C10: shuffle() leaves the size of the deck, the number of cards of every
\* identifier and decks_count as they were.
C10_ShufflePermutes ==
    [][op' = "shuffle" =>
          /\ Len(cards') = Len(cards)
          /\ LET old == IdsOf(cards)
                 new == IdsOf(cards')
             IN  \A i \in 1..Len(old) :
                    Occurrences(old[i], new) = Occurrences(old[i], old)
          /\ number_of_decks' = number_of_decks]_vars

C10_Witness ==
    /\ op = "shuffle"
    /\ number_of_decks = 2
    /\ Len(cards) = 3
    /\ cards[1] = cards[3]

\* The exceptions a deck operation fails with.
Errors == {"IndexError", "KeyError"}

\* C11: a top withdrawal from an empty deck, a withdrawal by an identifier no
\* card has (models.py) and an indexed read at a position >= size all fail,
\* and whenever an operation fails the cards are exactly as they were before.
C11_FailedCallLeavesCards ==
    [][/\ (op' = "take_card" /\ arg' = None /\ cards = <<>>) =>
              result' = Raised("IndexError")
       /\ (InModels /\ ByIdCall(op', arg') /\ Count(arg'[1], cards) = 0) =>
              result' = Raised("KeyError")
       /\ (op' = "__getitem__" /\ arg'[1] >= Len(cards)) =>
              result' = Raised("IndexError")
       /\ result'.kind \in Errors => cards' = cards]_vars

C11_Witness ==
    /\ op = "__getitem__"
    /\ arg = Some(Len(cards))
    /\ result = Raised("IndexError")
    /\ Len(cards) = 3
    /\ before = 3

\* C12: in models.py, take_card(_id) with any identifier string supplied, the
\* empty string included, withdraws by identifier: when no card of the deck
\* has the identifier the call removes no card and raises KeyError.  Only a
\* call without an identifier withdraws the top card.
C12_EveryIdentifierWithdrawsById ==
    [][(InModels /\ op' = "take_card" /\ arg' # None
          /\ Count(arg'[1], cards) = 0) =>
          /\ cards' = cards
          /\ result' = Raised("KeyError")]_vars

\* The ids of the tables, as characters.
RankIds == {RankId(r) : r \in Rank}

SuitIds == {SuitId(s) : s \in SuitSet}

\* C13: str(Card(r, s)) is the two characters r.id, s.id and Card.from_id of
\* it is Card(r, s); for every str of a rank id followed by a suit id,
\* Card.from_id succeeds and str of its card is that str again.
C13_CardIdRoundTrip ==
    /\ (cls = "Card" /\ op = "__str__") =>
          /\ Len(result.value) = 2
          /\ result.value = <<RankId(arg[1].rank), SuitId(arg[1].suit)>>
          /\ Card_from_id(result.value) = Returned(arg[1])
    /\ (op = "Card.from_id" /\ Len(arg[1]) = 2
          /\ arg[1][1] \in RankIds /\ arg[1][2] \in SuitIds) =>
          /\ result.kind = "card"
          /\ CardStr(result.card) = arg[1]

C13_Witness ==
    /\ op = "Card.from_id"
    /\ arg = Some(<<"T", "H">>)
    /\ result = Returned(Card(10, "heart"))
    /\ CardStr(result.card) = <<"T", "H">>

\* C14: Card.from_id(s) raises exactly when s is not two characters long, or
\* its first character is no rank id, or its second character is no suit id,
\* and returns a card otherwise.  Rank.from_id and Suit.from_id return the
\* only member whose id is the input and raise when there is none;
\* from_id(v.id) is v for every member v.
C14_FromIdFailsExactlyOnBadIds ==
    /\ op = "Card.from_id" =>
          LET s == arg[1]
              bad == \/ Len(s) # 2
                     \/ s[1] \notin RankIds
                     \/ s[2] \notin SuitIds
          IN  /\ result.kind \in Errors <=> bad
              /\ result.kind \notin Errors => result.kind = "card"
    /\ op = "Rank.from_id" =>
          LET members == {r \in Rank : <<RankId(r)>> = arg[1]}
          IN  IF members = {} THEN result.kind \in Errors
              ELSE members = {result.value} /\ result.kind = "value"
    /\ op = "Suit.from_id" =>
          LET members == {s \in SuitSet : <<SuitId(s)>> = arg[1]}
          IN  IF members = {} THEN result.kind \in Errors
              ELSE members = {result.value} /\ result.kind = "value"
    /\ (cls = "Rank" /\ op = "id") => Rank_from_id(result.value) = Value(arg[1])
    /\ (cls = "Suit" /\ op = "id") => Suit_from_id(result.value) = Value(arg[1])

C14_Witness ==
    /\ op = "Card.from_id"
    /\ arg = Some(<<"A", "0">>)
    /\ result = Raised("KeyError")

\* The members of the enum c, and a < b in class c as the code computes it.
Members(c) == IF c = "Suit" THEN SuitSet ELSE Rank

Lt(c, a, b) == Compare(c, "__lt__", a, b)

\* The place of a suit in CLUB < DIAMOND < HEART < SPADE.
SuitPlace(s) == CHOOSE i \in 1..4 : <<"club", "diamond", "heart", "spade">>[i] = s

\* C15: < on Suit is CLUB < DIAMOND < HEART < SPADE and < on Rank is that of
\* the numeric values; each is a strict total order (irreflexive, transitive,
\* any two different members comparable); a >= b is true exactly when a < b
\* is false, and a == a is true.
C15_ComparisonsAreConsistentOrders ==
    (cls \in {"Rank", "Suit"} /\ op \in {"__lt__", "__ge__", "__eq__"}) =>
        LET a == arg[1]
            b == arg[2]
        IN  /\ op = "__lt__" =>
                  /\ cls = "Suit" => (result.value <=> SuitPlace(a) < SuitPlace(b))
                  /\ cls = "Rank" => (result.value <=> a < b)
                  /\ a = b => ~result.value
                  /\ a # b => (result.value <=> ~Lt(cls, b, a))
                  /\ \A c \in Members(cls) :
                        (result.value /\ Lt(cls, b, c)) => Lt(cls, a, c)
            /\ op = "__ge__" => (result.value <=> ~Lt(cls, a, b))
            /\ (op = "__eq__" /\ a = b) => result.value

C15_Witness ==
    /\ cls = "Suit"
    /\ op = "__ge__"
    /\ arg = <<"diamond", "spade">>
    /\ result = Value(FALSE)

\* The cards of a pack of p pairs.
PackCards(p) == {Product[i] : i \in 1..p}

\* C16: in every state a deck of decks_count = n holds only identifiers of the
\* pack, each at most n times, so its size is between 0 and pack * n; a
\* single deck never holds two cards with the same identifier.
C16_AtMostDecksCountOfEachId ==
    /\ \A i \in 1..Len(cards) :
          /\ CardStr(cards[i]) \in PackIds(pack)
          /\ Count(CardStr(cards[i]), cards) <= number_of_decks
    /\ 0 <= Len(cards)
    /\ Len(cards) <= FullSize
    /\ number_of_decks = 1 => NoDuplicates(cards)

C16_Witness ==
    /\ cls = "Decks"
    /\ number_of_decks = 2
    /\ op = "_take_card_by_id"
    /\ result.kind = "card"
    /\ Len(cards) = 3
    /\ Count(CardStr(cards[1]), cards) = 2

\* C17: a withdrawal that returns a card leaves the deck one card shorter,
\* reset leaves pack * decks_count cards, and shuffle, an indexed read and
\* every call that fails or returns no card leave the size as it was; so
\* no call but reset makes the deck longer.
C17_SizeChangesInThreeWays ==
    /\ (op \in Withdrawals /\ result.kind = "card") => Len(cards) = before - 1
    /\ (op \in Withdrawals /\ result.kind # "card") => Len(cards) = before
    /\ op = "reset" => Len(cards) = FullSize
    /\ op \in {"shuffle", "__getitem__"} => Len(cards) = before
    /\ result.kind \in Errors => Len(cards) = before
    /\ op \in Withdrawals \cup {"reset", "shuffle", "__getitem__", "__init__"}
    /\ op \notin {"reset", "__init__"} => Len(cards) <= before

C17_Witness ==
    /\ op = "__getitem__"
    /\ arg = Some(-1)
    /\ result.kind = "card"
    /\ before = 3
    /\ Len(cards) = 3

\* C18: in every state each card of the pack is decks_count times in the deck
\* and the bag of the cards withdrawals have returned since the last reset
\* or the construction taken together, and no other card is in either.
C18_CardsAreConserved ==
    \A c \in CardSet :
        Occurrences(c, cards) + CopiesIn(c, taken) =
            IF c \in PackCards(pack) THEN number_of_decks ELSE 0

C18_Witness ==
    /\ cls = "Decks"
    /\ number_of_decks = 2
    /\ op = "take_card"
    /\ arg # None
    /\ CopiesIn(Card(ACE, "club"), taken) = 2
    /\ CopiesIn(Card(ACE, "spade"), taken) = 1
    /\ Len(cards) = 1

=============================================================================
